---- MODULE Spec2Model ----
(***************************************************************************)
(* Model of src/src/simulation.rs: Simulation::new (batch and single       *)
(* mode), Simulation::setup, Simulation::launch and the outcome logging    *)
(* (log_start, log_success, log_failure, log_error_chain).                 *)
(*                                                                         *)
(* Strings the program formats are modelled as sequences of tokens; a      *)
(* number inside a string is the token ToString(n).                        *)
(***************************************************************************)
EXTENDS Integers, Sequences, FiniteSets, TLC

(* ---- bounds of the model ---------------------------------------------- *)
\* longest directory listing (batch mode) that is explored
MaxSources == 3
\* longest sequence of setups against one output base that is explored
MaxSetups == 2
\* longest cause chain of a fatal integrator error
MaxChain == 2
\* highest number of a run directory that exists before the process starts
MaxPre == 2

(* ---- value sets of the inputs ------------------------------------------ *)
\* marker of a path whose file stem is absent or not valid UTF-8
NoName == "<none>"
\* file stems of the configuration sources; one of them holds a dot
Stems == {"a", "a.b"}
\* extensions of directory entries that are not configuration sources
OtherExts == {"txt", ""}
\* values of initial_time / final_time
Times == {0, 1}
IntegratorTypes == {"rk4"}
Universes == {"u"}
\* values of launch's argument x; x_final and y are fixed
Xs == {0, 1}
XFinal == 2
Y == <<1>>

\* InputConfig<U>
InputConfig ==
    [resume : BOOLEAN, initial_time : Times, final_time : Times,
     integrator : IntegratorTypes, universe : Universes]

\* a path handed to setup / found in the directory listing: its extension,
\* its file stem, whether its content deserializes, and the record it holds
Entries ==
    [ext : {"conf"} \cup OtherExts, stem : Stems \cup {NoName},
     parses : BOOLEAN, config : InputConfig]

\* failures the file-system collaborator can inject into one setup
SetupFaults == {"none", "mkdir", "write_conf", "open_sink"}
\* failures of the steps of new that precede the setups
NewFaults == {"none", "create_directory", "logfile", "collect_files"}

VARIABLES
    pc,         \* position of the process: "start", "setup", "returned", "exit"
    batch_mode, \* cli.batch_mode
    outDir,     \* TRUE iff the output base directory exists
    logFile,    \* TRUE iff <output>/simulation.log is open
    runs,       \* numbered run directories of the output base:
                \*   number -> [files : Seq(file name), conf : Seq(json)]
    listing,    \* entries of the input the iterator has consumed so far
    sims,       \* the Simulations constructed so far (the Vec being collected)
    ret,        \* what new returned: [state, kind, k]
    next,       \* index in sims of the next Simulation the caller launches
    cur,        \* index of the Simulation whose launch is running, 0 if none
    self,       \* the Simulation the running (or last) launch took ownership of
    given,      \* given[i]: the arguments (x, x_final, y) launch i received
    calls,      \* calls[i]: the integrator operations launch i invoked
    outcome,    \* outcome[i]: "ok" / "err" once launch i returned
    log,        \* records of simulation.log, in order
    stderr,     \* lines written to standard error, in order
    trace       \* history of the steps taken: [op, k, d]

vars == <<pc, batch_mode, outDir, logFile, runs, listing, sims, ret, next, cur,
          self, given, calls, outcome, log, stderr, trace>>

(* ---- helpers ------------------------------------------------------------ *)
Max(S) == CHOOSE m \in S : \A n \in S : n <= m

Ev(op, k, d) == [op |-> op, k |-> k, d |-> d]

(* ---- sci_file collaborator ---------------------------------------------- *)
\* create_incremented_directory: highest existing index + 1
create_incremented_directory(rs) == Max(DOMAIN rs \cup {0}) + 1

\* the value a JSON object holds under key
JsonValue(json, key) == json[CHOOSE i \in 1..Len(json) : json[i][1] = key][2]

\* serde_json parsing of the text of a boolean / of a number
parse_bool(text) == CHOOSE b \in BOOLEAN : ToString(b) = text
parse_number(text) == CHOOSE n \in Times : ToString(n) = text

\* serde_json reading of an InputConfig: every field from the key of its name
deserialize_json(json) ==
    [resume |-> parse_bool(JsonValue(json, "resume")),
     initial_time |-> parse_number(JsonValue(json, "initial_time")),
     final_time |-> parse_number(JsonValue(json, "final_time")),
     integrator |-> JsonValue(json, "integrator"),
     universe |-> JsonValue(json, "universe")]

\* a rendering that writes the two time bounds under each other's key
serialize_json_swapped(config) ==
    << <<"resume", ToString(config.resume)>>,
       <<"initial_time", ToString(config.final_time)>>,
       <<"final_time", ToString(config.initial_time)>>,
       <<"integrator", config.integrator>>,
       <<"universe", config.universe>> >>

\* serde_json rendering of an InputConfig: the fields in declaration order
serialize_json(config) ==
    << <<"resume", ToString(config.resume)>>,
       <<"initial_time", ToString(config.initial_time)>>,
       <<"final_time", ToString(config.final_time)>>,
       <<"integrator", config.integrator>>,
       <<"universe", config.universe>> >>

EmptyDir == [files |-> <<>>, conf |-> <<>>]

AddDir(rs, d) == [n \in DOMAIN rs \cup {d} |-> IF n = d THEN EmptyDir ELSE rs[n]]

(* ---- paths ---------------------------------------------------------------- *)
\* a file name is the sequence of its dot-separated parts; these are the parts
\* of `dir.join(&name)` for a file stem of the model
StemParts(name) == IF name = "a.b" THEN <<"a", "b">> ELSE <<name>>

\* PathBuf::set_extension: what follows the last dot of the file name is
\* replaced by ext; a file name without a dot gets ext added
set_extension(file, ext) ==
    IF Len(file) > 1 THEN SubSeq(file, 1, Len(file) - 1) \o <<ext>>
    ELSE file \o <<ext>>

\* outpath after `set_extension("conf")` (line 114)
ConfPath(name) == set_extension(StemParts(name), "conf")
\* outpath after the following `set_extension("jsonl")` (line 118)
SinkPath(name) == set_extension(ConfPath(name), "jsonl")

(* ---- Simulation::setup --------------------------------------------------- *)
\* the Simulation entity; system = System::new(outfile, config.universe)
Simulation(name, config, d) ==
    [name |-> name, resume |-> config.resume,
     initial_time |-> config.initial_time, final_time |-> config.final_time,
     integrator |-> config.integrator,
     system |-> [output |-> <<d, SinkPath(name)>>, data |-> config.universe]]

NoSim == Simulation(NoName, CHOOSE c \in InputConfig : TRUE, 0)

SetupErr(kind, rs, ev) == [ok |-> FALSE, err |-> kind, sim |-> NoSim, runs |-> rs, ev |-> ev]

\* setup with the time check moved behind the creation of the run directory
setup_late_check(entry, k, rs, fault) ==
    IF ~entry.parses THEN SetupErr("deserialize", rs, <<Ev("deserialize", k, 0)>>)
    ELSE IF entry.stem = NoName
    THEN SetupErr("name", rs, <<Ev("deserialize", k, 0), Ev("file_stem", k, 0)>>)
    ELSE IF fault = "mkdir"
    THEN SetupErr("mkdir", rs, <<Ev("deserialize", k, 0), Ev("file_stem", k, 0)>>)
    ELSE
    LET d    == create_incremented_directory(rs)
        rs1  == AddDir(rs, d)
        ev1  == <<Ev("deserialize", k, 0), Ev("file_stem", k, 0), Ev("mkdir", k, d)>>
    IN  IF ~(entry.config.initial_time < entry.config.final_time)
        THEN SetupErr("validation", rs1, ev1 \o <<Ev("ensure", k, 0)>>)
        ELSE [ok |-> TRUE, err |-> "none",
              sim |-> Simulation(entry.stem, entry.config, d),
              runs |-> [rs1 EXCEPT ![d] =
                          [files |-> <<ConfPath(entry.stem), SinkPath(entry.stem)>>,
                           conf |-> <<serialize_json(entry.config)>>]],
              ev |-> ev1 \o <<Ev("ensure", k, 0), Ev("write_conf", k, d),
                              Ev("open_sink", k, d)>>]

\* setup that writes into a fixed directory instead of a fresh numbered one
setup_fixed_dir(entry, k, rs, fault) ==
    IF ~entry.parses THEN SetupErr("deserialize", rs, <<Ev("deserialize", k, 0)>>)
    ELSE IF ~(entry.config.initial_time < entry.config.final_time)
    THEN SetupErr("validation", rs, <<Ev("deserialize", k, 0), Ev("ensure", k, 0)>>)
    ELSE IF entry.stem = NoName
    THEN SetupErr("name", rs, <<Ev("deserialize", k, 0), Ev("ensure", k, 0),
                                Ev("file_stem", k, 0)>>)
    ELSE
    LET d    == 1
        rs1  == AddDir(rs, d)
    IN  [ok |-> TRUE, err |-> "none",
         sim |-> Simulation(entry.stem, entry.config, d),
         runs |-> [rs1 EXCEPT ![d] =
                     [files |-> <<ConfPath(entry.stem), SinkPath(entry.stem)>>,
                      conf |-> <<serialize_json(entry.config)>>]],
         ev |-> <<Ev("deserialize", k, 0), Ev("ensure", k, 0), Ev("file_stem", k, 0),
                  Ev("mkdir", k, d), Ev("write_conf", k, d), Ev("open_sink", k, d)>>]

\* setup that removes the run directory again when a later step fails
setup_with_cleanup(entry, k, rs, fault) ==
    LET evD == <<Ev("deserialize", k, 0)>>
        evE == evD \o <<Ev("ensure", k, 0)>>
        evN == evE \o <<Ev("file_stem", k, 0)>>
    IN
    IF ~entry.parses THEN SetupErr("deserialize", rs, evD)
    ELSE IF ~(entry.config.initial_time < entry.config.final_time)
    THEN SetupErr("validation", rs, evE)
    ELSE IF entry.stem = NoName THEN SetupErr("name", rs, evN)
    ELSE IF fault = "mkdir" THEN SetupErr("mkdir", rs, evN)
    ELSE
    LET name == entry.stem
        d    == create_incremented_directory(rs)
        rs1  == AddDir(rs, d)
        evM  == evN \o <<Ev("mkdir", k, d)>>
    IN
    IF fault = "write_conf" THEN SetupErr("write_conf", rs, evM)
    ELSE
    LET rs2 == [rs1 EXCEPT ![d] = [files |-> <<ConfPath(name)>>,
                                   conf |-> <<serialize_json(entry.config)>>]]
        evW == evM \o <<Ev("write_conf", k, d)>>
    IN
    IF fault = "open_sink" THEN SetupErr("open_sink", rs, evW)
    ELSE
    [ok |-> TRUE, err |-> "none",
     sim |-> Simulation(name, entry.config, d),
     runs |-> [rs2 EXCEPT ![d].files = Append(@, SinkPath(name))],
     ev |-> evW \o <<Ev("open_sink", k, d)>>]

\* setup(input_path, output_path): entry is the input path, k its position in
\* the listing, rs the run directories of output_path, fault the failure the
\* file system injects (it takes effect only if setup reaches that step).
setup(entry, k, rs, fault) ==
    LET evD == <<Ev("deserialize", k, 0)>>
        evE == evD \o <<Ev("ensure", k, 0)>>
        evN == evE \o <<Ev("file_stem", k, 0)>>
    IN
    \* deserialize_json_from_path(input_path).context(..)?
    IF ~entry.parses THEN SetupErr("deserialize", rs, evD)
    \* ensure!(config.initial_time < config.final_time, ..)
    ELSE IF ~(entry.config.initial_time < entry.config.final_time)
    THEN SetupErr("validation", rs, evE)
    \* input_path.file_stem().and_then(to_str).context(..)?
    ELSE IF entry.stem = NoName THEN SetupErr("name", rs, evN)
    \* create_incremented_directory(output_path)?
    ELSE IF fault = "mkdir" THEN SetupErr("mkdir", rs, evN)
    ELSE
    LET name == entry.stem
        d    == create_incremented_directory(rs)
        rs1  == AddDir(rs, d)
        evM  == evN \o <<Ev("mkdir", k, d)>>
    IN
    \* serialize_json_to_path(&config, <d>/<name>.conf)?
    IF fault = "write_conf" THEN SetupErr("write_conf", rs1, evM)
    ELSE
    LET rs2 == [rs1 EXCEPT ![d] = [files |-> <<ConfPath(name)>>,
                                   conf |-> <<serialize_json(entry.config)>>]]
        evW == evM \o <<Ev("write_conf", k, d)>>
    IN
    \* OutputFile::new(<d>/<name>.jsonl)?
    IF fault = "open_sink" THEN SetupErr("open_sink", rs2, evW)
    ELSE
    [ok |-> TRUE, err |-> "none",
     sim |-> Simulation(name, entry.config, d),
     runs |-> [rs2 EXCEPT ![d].files = Append(@, SinkPath(name))],
     ev |-> evW \o <<Ev("open_sink", k, d)>>]

(* ---- integrator collaborator: what initialise / integrate can return ----- *)
\* Display texts of the causes of an error chain, proximate cause first
CauseNames == <<"cause1", "cause2", "cause3", "cause4">>

\* IntegratorError::StepLimitReached { x, n_step }
StepLimitReached == [variant |-> "StepLimitReached", x |-> 1, n_step |-> 5,
                     chain |-> <<"step limit reached">>]

\* any other IntegratorError, with a chain of n causes (itself, then its sources)
OtherError(n) == [variant |-> "Other", x |-> 0, n_step |-> 0,
                  chain |-> SubSeq(CauseNames, 1, n)]

IntegratorErrors == {StepLimitReached} \cup {OtherError(n) : n \in 1..MaxChain}

\* Result<Stats, IntegratorError> of integrate
IntegrateResults ==
    {[ok |-> TRUE, stats |-> "stats", why |-> StepLimitReached]}
    \cup {[ok |-> FALSE, stats |-> "", why |-> e] : e \in IntegratorErrors}

(* ---- logging ------------------------------------------------------------- *)
LogRec(level, msg) == [level |-> level, msg |-> msg]

\* what one logging call emits: records for simulation.log, lines for stderr
Emit(l, e) == [log |-> l, stderr |-> e]

log_start(name, initial_time, final_time) ==
    LogRec("info", <<"Starting simulation ", name, " at time period of ",
                     ToString(initial_time), " to ", ToString(final_time),
                     " (total ", ToString(final_time - initial_time), ")">>)

log_success(name, final_time, stats) ==
    LogRec("info", <<"Completed simulation ", name, " at time ",
                     ToString(final_time), ". Integrator stats: ", stats>>)

RECURSIVE push_causes(_, _)
\* the loop `for cause in e.chain() { s.push_str(&format!(": {cause}")) }`
push_causes(chain, s) ==
    IF chain = <<>> THEN s
    ELSE push_causes(Tail(chain), s \o <<": ", Head(chain)>>)

RECURSIVE push_causes_reversed(_, _)
\* the loop walking the chain from the root cause up
push_causes_reversed(chain, s) ==
    IF chain = <<>> THEN s
    ELSE push_causes_reversed(SubSeq(chain, 1, Len(chain) - 1),
                              s \o <<": ", chain[Len(chain)]>>)

\* log_error_chain that flattens the chain root cause first
log_error_chain_reversed(chain, s) ==
    LET m == push_causes_reversed(chain, s)
    IN  Emit(<<LogRec("error", m)>>, << <<"Error: ">> \o m >>)

\* log_error_chain(e, s): e is given by its chain
log_error_chain(chain, s) ==
    LET m == push_causes(chain, s)
    IN  Emit(<<LogRec("error", m)>>, << <<"Error: ">> \o m >>)

AbortPrefix(name) == <<"Aborting simulation ", name, " due to failure.">>

\* log_failure that reports every error as fatal as well
log_failure_both(name, why) ==
    IF why.variant = "StepLimitReached"
    THEN LET f == log_error_chain(why.chain, AbortPrefix(name))
         IN  Emit(<<LogRec("warn", <<"Terminating simulation ", name, " after ",
                            ToString(why.x), " years as maximum ",
                            ToString(why.n_step), " steps reached.">>)>> \o f.log,
                  f.stderr)
    ELSE log_error_chain(why.chain, AbortPrefix(name))

\* log_failure(name, why)
log_failure(name, why) ==
    IF why.variant = "StepLimitReached"
    THEN Emit(<<LogRec("warn", <<"Terminating simulation ", name, " after ",
                                 ToString(why.x), " years as maximum ",
                                 ToString(why.n_step), " steps reached.">>)>>,
              <<>>)
    ELSE log_error_chain(why.chain, AbortPrefix(name))

(* ---- Simulation::launch -------------------------------------------------- *)
\* an operation invoked on the integrator: its arguments, whether it has
\* returned, and the Result it returned
Call(op, args, done, result) == [op |-> op, args |-> args, done |-> done, result |-> result]

OkResult == [ok |-> TRUE, stats |-> "", why |-> StepLimitReached]
\* the error a failing initialise returns
InitError == [ok |-> FALSE, stats |-> "", why |-> OtherError(1)]

InitCall(x, x_final, y, init_ok) ==
    Call("initialise", <<x, x_final, y>>, TRUE, IF init_ok THEN OkResult ELSE InitError)
\* integrate has been entered and blocks
IntegrateCall == Call("integrate", <<>>, FALSE, OkResult)

\* launch that initialises the integrator whatever resume says
launch_enter_always_init(sim, x, x_final, y, init_ok) ==
    IF ~init_ok
    THEN [calls |-> <<InitCall(x, x_final, y, init_ok)>>, ret |-> "err", log |-> <<>>,
          steps |-> <<"initialise">>]
    ELSE [calls |-> <<InitCall(x, x_final, y, init_ok), IntegrateCall>>,
          ret |-> "running",
          log |-> <<log_start(sim.name, sim.initial_time, sim.final_time)>>,
          steps |-> <<"initialise", "log_start", "integrate">>]

\* launch that logs the start before it initialises the integrator
launch_enter_log_first(sim, x, x_final, y, init_ok) ==
    IF ~sim.resume /\ ~init_ok
    THEN [calls |-> <<InitCall(x, x_final, y, init_ok)>>, ret |-> "err",
          log |-> <<log_start(sim.name, sim.initial_time, sim.final_time)>>,
          steps |-> <<"log_start", "initialise">>]
    ELSE [calls |-> (IF sim.resume THEN <<>> ELSE <<InitCall(x, x_final, y, init_ok)>>)
                    \o <<IntegrateCall>>,
          ret |-> "running",
          log |-> <<log_start(sim.name, sim.initial_time, sim.final_time)>>,
          steps |-> <<"log_start">>
                    \o (IF sim.resume THEN <<>> ELSE <<"initialise">>)
                    \o <<"integrate">>]

\* launch that drops the error of initialise and carries on
launch_enter_ignore_init_error(sim, x, x_final, y, init_ok) ==
    [calls |-> (IF sim.resume THEN <<>> ELSE <<InitCall(x, x_final, y, init_ok)>>)
               \o <<IntegrateCall>>,
     ret |-> "running",
     log |-> <<log_start(sim.name, sim.initial_time, sim.final_time)>>,
     steps |-> (IF sim.resume THEN <<>> ELSE <<"initialise">>)
               \o <<"log_start", "integrate">>]

\* launch up to the point where integrate has been entered (lines 137-146):
\* the integrator operations invoked, what is logged, the order of the steps,
\* and whether launch has already returned ("err": initialise failed and `?`
\* returned its error)
launch_enter(sim, x, x_final, y, init_ok) ==
    IF ~sim.resume /\ ~init_ok
    THEN [calls |-> <<InitCall(x, x_final, y, init_ok)>>, ret |-> "err", log |-> <<>>,
          steps |-> <<"initialise">>]
    ELSE [calls |-> (IF sim.resume THEN <<>> ELSE <<InitCall(x, x_final, y, init_ok)>>)
                    \o <<IntegrateCall>>,
          ret |-> "running",
          log |-> <<log_start(sim.name, sim.initial_time, sim.final_time)>>,
          steps |-> (IF sim.resume THEN <<>> ELSE <<"initialise">>)
                    \o <<"log_start", "integrate">>]

\* launch that hands a fatal integrate error on to its caller
launch_finish_propagate(sim, result) ==
    IF result.ok
    THEN [out |-> Emit(<<log_success(sim.name, sim.final_time, result.stats)>>, <<>>),
          ret |-> "ok"]
    ELSE [out |-> log_failure(sim.name, result.why),
          ret |-> IF result.why.variant = "StepLimitReached" THEN "ok" ELSE "err"]

\* launch from the return of integrate on (lines 146-151)
launch_finish(sim, result) ==
    IF result.ok
    THEN [out |-> Emit(<<log_success(sim.name, sim.final_time, result.stats)>>, <<>>),
          ret |-> "ok"]
    ELSE [out |-> log_failure(sim.name, result.why), ret |-> "ok"]

(* ---- Simulation::new ------------------------------------------------------ *)
Ret(state, kind, k) == [state |-> state, kind |-> kind, k |-> k]

DefaultConfig == CHOOSE c \in InputConfig : c.initial_time < c.final_time

\* the entries a directory listing can hold that are not .conf files
OtherEntries ==
    {e \in Entries : e.ext \in OtherExts /\ e.stem = "a" /\ ~e.parses
                     /\ e.config = DefaultConfig}

\* file stems of the .conf entries already listed (file names of one
\* directory are distinct, hence so are the stems of its .conf files)
ListedStems == {listing[i].stem : i \in {j \in 1..Len(listing) : listing[j].ext = "conf"}}

\* the .conf entries the listing can hold next
ConfEntries ==
    {e \in Entries : e.ext = "conf" /\ e.stem \notin ListedStems
                     /\ (~e.parses => e.config = DefaultConfig)}

\* the paths single mode can be given
SinglePaths ==
    {e \in Entries : e.ext \in {"conf", "txt"} /\ (~e.parses => e.config = DefaultConfig)}

\* the entries the listing can hold next
DirEntries == OtherEntries \cup ConfEntries

\* a filter that lets every entry with an extension through
passes_filter_any_ext(e) == e.ext # ""

\* the filter of line 83: `config.extension() == Some(OsStr::new("conf"))`
passes_filter(e) == e.ext = "conf"

\* collect that drops a failed source and carries on with the next one
collect_skip_failed(acc, r, k) ==
    IF r.ok THEN [sims |-> Append(acc, r.sim), ret |-> Ret("pending", "none", 0)]
    ELSE [sims |-> acc, ret |-> Ret("pending", "none", 0)]

\* one step of `.map(setup).collect::<Result<Vec<_>>>()`: an Ok is pushed, the
\* first Err ends the iteration, drops the Vec and is what new returns
collect(acc, r, k) ==
    IF r.ok THEN [sims |-> Append(acc, r.sim), ret |-> Ret("pending", "none", 0)]
    ELSE [sims |-> <<>>, ret |-> Ret("err", r.err, k)]

\* the Simulations the caller gets hold of, as soon as it can: everything the
\* iteration has built so far (new handing out a lazy iterator)
Returned_lazy == IF ret.state = "err" THEN <<>> ELSE sims

\* the Simulations the caller holds: the Vec of new's Ok, once new has returned
Returned == IF ret.state = "ok" THEN sims ELSE <<>>

\* lines 62-81: create_directory, the logger, and in batch mode the listing
NewBegin ==
    /\ pc = "start"
    /\ \E fault \in NewFaults :
        /\ fault = "collect_files" => batch_mode
        /\ outDir' = (outDir \/ fault # "create_directory")
        /\ logFile' = (fault \notin {"create_directory", "logfile"})
        /\ trace' = trace
                    \o (IF fault # "create_directory"
                        THEN <<Ev("create_directory", 0, 0)>> ELSE <<>>)
                    \o (IF fault \notin {"create_directory", "logfile"}
                        THEN <<Ev("new_log", 0, 0)>> ELSE <<>>)
        /\ IF fault = "none"
           THEN pc' = "setup" /\ ret' = ret
           ELSE pc' = "returned" /\ ret' = Ret("err", fault, 0)
    /\ UNCHANGED <<batch_mode, runs, listing, sims, next, cur, self, given, calls,
                   outcome, log, stderr>>

\* batch mode, line 83: the filter drops an entry whose extension is not "conf"
FilterOut ==
    /\ pc = "setup" /\ batch_mode /\ ret.state = "pending"
    /\ Len(listing) < MaxSources
    /\ \E e \in DirEntries :
        /\ ~passes_filter(e)
        /\ listing' = Append(listing, e)
        /\ trace' = Append(trace, Ev("filter_out", Len(listing) + 1, 0))
    /\ UNCHANGED <<pc, batch_mode, outDir, logFile, runs, sims, ret, next, cur,
                   self, given, calls, outcome, log, stderr>>

\* batch mode, lines 83-85: a .conf entry passes the filter, setup runs on it
\* and collect takes its result
SetupEntry ==
    /\ pc = "setup" /\ batch_mode /\ ret.state = "pending"
    /\ Len(listing) < MaxSources
    /\ \E e \in DirEntries, fault \in SetupFaults :
        LET k == Len(listing) + 1
            r == setup(e, k, runs, fault)
            c == collect(sims, r, k)
        IN  /\ passes_filter(e)
            /\ listing' = Append(listing, e)
            /\ runs' = r.runs
            /\ sims' = c.sims
            /\ ret' = c.ret
            /\ pc' = IF c.ret.state = "err" THEN "returned" ELSE "setup"
            /\ trace' = trace \o r.ev
                        \o <<Ev(IF r.ok THEN "setup_ok" ELSE "setup_err", k, 0)>>
    /\ UNCHANGED <<batch_mode, outDir, logFile, next, cur, self, given, calls,
                   outcome, log, stderr>>

\* batch mode, line 85: the listing is exhausted, collect returns Ok(vec)
EndOfListing ==
    /\ pc = "setup" /\ batch_mode /\ ret.state = "pending"
    /\ pc' = "returned"
    /\ ret' = Ret("ok", "none", 0)
    /\ UNCHANGED <<batch_mode, outDir, logFile, runs, listing, sims, next, cur,
                   self, given, calls, outcome, log, stderr, trace>>

\* single mode, lines 87-88: setup on the given path, Ok(vec![sim]) or its error
SingleSetup ==
    /\ pc = "setup" /\ ~batch_mode
    /\ \E e \in SinglePaths, fault \in SetupFaults :
        LET r == setup(e, 1, runs, fault)
        IN  /\ listing' = <<e>>
            /\ runs' = r.runs
            /\ sims' = IF r.ok THEN <<r.sim>> ELSE <<>>
            /\ ret' = IF r.ok THEN Ret("ok", "none", 0) ELSE Ret("err", r.err, 1)
            /\ trace' = trace \o r.ev
                        \o <<Ev(IF r.ok THEN "setup_ok" ELSE "setup_err", 1, 0)>>
    /\ pc' = "returned"
    /\ UNCHANGED <<batch_mode, outDir, logFile, next, cur, self, given, calls,
                   outcome, log, stderr>>

(* ---- the caller and Simulation::launch ------------------------------------ *)
\* the steps of one launch, as events of launch i
StepEvents(steps, i) == [j \in 1..Len(steps) |-> Ev(steps[j], i, 0)]

\* The caller takes the Simulations of the Vec one after the other and calls
\* launch on each (launch takes ownership of the Simulation); launch runs up
\* to the blocking call of integrate.
LaunchCall ==
    /\ pc # "exit" /\ cur = 0
    /\ next <= Len(Returned)
    /\ \E x \in Xs, init_ok \in BOOLEAN :
        LET sim == Returned[next]
            l   == launch_enter(sim, x, XFinal, Y, init_ok)
        IN  /\ (sim.resume => init_ok)
            /\ self' = sim
            /\ given' = Append(given, <<x, XFinal, Y>>)
            /\ calls' = Append(calls, l.calls)
            /\ outcome' = Append(outcome, l.ret)
            /\ log' = log \o l.log
            /\ cur' = IF l.ret = "running" THEN next ELSE 0
            /\ trace' = trace \o <<Ev("launch", next, 0)>> \o StepEvents(l.steps, next)
                        \o (IF l.ret = "err" THEN <<Ev("launch_err", next, 0)>> ELSE <<>>)
    /\ next' = next + 1
    /\ UNCHANGED <<pc, batch_mode, outDir, logFile, runs, listing, sims, ret, stderr>>

\* integrate returns; launch logs the outcome and returns (lines 146-151)
IntegrateReturn ==
    /\ pc # "exit" /\ cur # 0
    /\ \E result \in IntegrateResults :
        LET f == launch_finish(self, result)
            n == Len(calls[cur])
        IN  /\ calls' = [calls EXCEPT ![cur][n] = Call("integrate", <<>>, TRUE, result)]
            /\ log' = log \o f.out.log
            /\ stderr' = stderr \o f.out.stderr
            /\ outcome' = [outcome EXCEPT ![cur] = f.ret]
            /\ trace' = trace
                        \o <<Ev(IF f.ret = "ok" THEN "launch_ok" ELSE "launch_err", cur, 0)>>
    /\ cur' = 0
    /\ UNCHANGED <<pc, batch_mode, outDir, logFile, runs, listing, sims, ret, next,
                   self, given>>

\* the last launch returned an error
LastFailed == outcome # <<>> /\ outcome[Len(outcome)] = "err"

\* The process ends: new returned an error, or every Simulation was launched,
\* or the caller gives up after a launch that returned an error.
Exit ==
    /\ pc = "returned" /\ cur = 0
    /\ \/ ret.state = "err"
       \/ next > Len(Returned)
       \/ LastFailed
    /\ pc' = "exit"
    /\ UNCHANGED <<batch_mode, outDir, logFile, runs, listing, sims, ret, next, cur,
                   self, given, calls, outcome, log, stderr, trace>>

(* ---- specification --------------------------------------------------------- *)
\* numbered directories the output base can hold before the process starts
PreRuns == {[n \in P |-> EmptyDir] : P \in SUBSET (1..MaxPre)}

Init ==
    /\ pc = "start"
    /\ batch_mode \in BOOLEAN
    /\ outDir \in BOOLEAN
    /\ logFile = FALSE
    /\ runs \in PreRuns
    /\ (~outDir => runs = <<>>)
    /\ listing = <<>>
    /\ sims = <<>>
    /\ ret = Ret("pending", "none", 0)
    /\ next = 1
    /\ cur = 0
    /\ self = NoSim
    /\ given = <<>>
    /\ calls = <<>>
    /\ outcome = <<>>
    /\ log = <<>>
    /\ stderr = <<>>
    /\ trace = <<>>

Next ==
    \/ NewBegin
    \/ FilterOut
    \/ SetupEntry
    \/ EndOfListing
    \/ SingleSetup
    \/ LaunchCall
    \/ IntegrateReturn
    \/ Exit

Spec == Init /\ [][Next]_vars

(* ---- setup called again and again on one output base ----------------------- *)
\* the sources a setup can be given
SetupSources ==
    {e \in Entries : e.ext = "conf" /\ (~e.parses => e.config = DefaultConfig)}

\* one more setup against the same output base, whatever the earlier ones
\* returned: ret is the result of this setup, sims the Simulations constructed
SetupAgain ==
    /\ Len(listing) < MaxSetups
    /\ \E e \in SetupSources, fault \in SetupFaults :
        LET k == Len(listing) + 1
            r == setup(e, k, runs, fault)
        IN  /\ listing' = Append(listing, e)
            /\ runs' = r.runs
            /\ sims' = IF r.ok THEN Append(sims, r.sim) ELSE sims
            /\ ret' = IF r.ok THEN Ret("ok", "none", k) ELSE Ret("err", r.err, k)
            /\ trace' = trace \o r.ev
                        \o <<Ev(IF r.ok THEN "setup_ok" ELSE "setup_err", k, 0)>>
    /\ UNCHANGED <<pc, batch_mode, outDir, logFile, next, cur, self, given, calls,
                   outcome, log, stderr>>

\* the output base exists, with or without numbered directories in it
InitSetups == Init /\ outDir /\ ~batch_mode

SetupSpec == InitSetups /\ [][SetupAgain]_vars

(* ---- vocabulary of the properties ------------------------------------------ *)
TraceIdx == 1..Len(trace)
\* positions of the trace whose step is one of ops
At(ops) == {p \in TraceIdx : trace[p].op \in ops}

\* steps of setup, and those among them that create something in the output base
SetupOps == {"deserialize", "ensure", "file_stem", "mkdir", "write_conf",
             "open_sink", "setup_ok", "setup_err"}
RunArtifactOps == {"mkdir", "write_conf", "open_sink"}

\* the Simulation a log record names, and the kind of the record
RecName(r) == r.msg[2]
RecKind(r) ==
    IF r.level = "warn" THEN "recoverable"
    ELSE IF r.level = "error" THEN "fatal"
    ELSE IF r.msg[1] = "Starting simulation " THEN "start"
    ELSE "success"
TerminalKinds == {"success", "recoverable", "fatal"}

\* kinds of the log records of the Simulation called name, in log order
KindsOf(name) ==
    LET idx == {j \in 1..Len(log) : RecName(log[j]) = name}
        RECURSIVE walk(_)
        walk(j) == IF j > Len(log) THEN <<>>
                   ELSE (IF j \in idx THEN <<RecKind(log[j])>> ELSE <<>>) \o walk(j + 1)
    IN  walk(1)

CountLog(name, level) ==
    Cardinality({j \in 1..Len(log) : log[j].level = level /\ RecName(log[j]) = name})
\* a line of standard error is <<"Error: ", "Aborting simulation ", name, ..>>
CountStderr(name) == Cardinality({l \in 1..Len(stderr) : stderr[l][3] = name})

\* launches whose Simulation is known (new returned Ok)
Launched == DOMAIN calls \cap DOMAIN sims

InitFailed(i) == calls[i][1].op = "initialise" /\ ~calls[i][1].result.ok
\* the integrate call of launch i, if launch i got that far
Entered(i) == calls[i][Len(calls[i])].op = "integrate"
Integrated(i) == Entered(i) /\ calls[i][Len(calls[i])].done
IntegrateResult(i) == calls[i][Len(calls[i])].result

Dir(sim) == sim.system.output[1]

(* ---- C1 ----------------------------------------------------------------------- *)
\* C1 as stated: whatever error the integrator reports during a launch
\* (initialise or integrate), that launch returns success.
C1_Original ==
    \A i \in DOMAIN calls :
        (\E c \in 1..Len(calls[i]) : calls[i][c].done /\ ~calls[i][c].result.ok)
            => outcome[i] # "err"

\* C1 amended: every error that integrate reports (step limit or any other) is
\* logged and launch returns success; launch returns an error exactly when
\* initialise failed; and the batch is never cut short after a launch that
\* returned success.
C1_IntegrateErrorHandled ==
    /\ \A i \in Launched :
          (Integrated(i) /\ ~IntegrateResult(i).ok)
              => /\ outcome[i] = "ok"
                 /\ CountLog(sims[i].name, "warn") + CountLog(sims[i].name, "error") = 1
    /\ \A i \in DOMAIN outcome : (outcome[i] = "err") <=> InitFailed(i)
    /\ (pc = "exit" /\ next <= Len(Returned)) => LastFailed

\* a fatal integrate error in one launch, and the next Simulation launched after it
C1_Witness ==
    \E i \in Launched :
        /\ Integrated(i) /\ ~IntegrateResult(i).ok
        /\ IntegrateResult(i).why.variant = "Other"
        /\ outcome[i] = "ok"
        /\ Len(outcome) > i

(* ---- C2 ----------------------------------------------------------------------- *)
\* C2: in batch mode, when new returns an error because a source is invalid, no
\* numbered run directory, .conf copy or .jsonl sink was created for any source.
C2_NoRunArtifactOnBatchError ==
    (batch_mode /\ ret.state = "err" /\ ret.kind \in {"deserialize", "validation", "name"})
        => \A p \in TraceIdx : trace[p].op \notin RunArtifactOps

(* ---- C3 ----------------------------------------------------------------------- *)
\* C3 as stated: a run that ends in a failure of the time check has created no
\* directory and no sink at all.
C3_Original ==
    (ret.state = "err" /\ ret.kind = "validation")
        => \A p \in TraceIdx :
              trace[p].op \notin RunArtifactOps \cup {"create_directory", "new_log"}

\* C3 amended: setup checks initial_time < final_time before it creates the run
\* directory, the .conf copy or the .jsonl sink of that record; a record with
\* initial_time >= final_time ends its setup in a validation failure with none
\* of the three created. The output base directory and simulation.log exist
\* already: new creates them before any setup runs.
C3_CheckBeforeRunArtifacts ==
    /\ \A p \in TraceIdx :
          trace[p].op \in RunArtifactOps
              => /\ \E q \in 1..(p - 1) : trace[q].op = "ensure" /\ trace[q].k = trace[p].k
                 /\ listing[trace[p].k].config.initial_time
                        < listing[trace[p].k].config.final_time
    /\ \A p \in TraceIdx :
          LET k == trace[p].k
          IN  (trace[p].op = "ensure"
               /\ listing[k].config.initial_time >= listing[k].config.final_time)
                  => /\ ret = Ret("err", "validation", k)
                     /\ trace[p + 1] = Ev("setup_err", k, 0)
                     /\ \A q \in TraceIdx :
                           trace[q].k = k => trace[q].op \notin RunArtifactOps
    /\ \A p \in TraceIdx :
          trace[p].op = "ensure"
              => \E q, r \in 1..(p - 1) :
                    trace[q].op = "create_directory" /\ trace[r].op = "new_log"

\* the time check fails for the second source of a batch, after a first setup
\* that created its run directory
C3_Witness ==
    /\ ret = Ret("err", "validation", 2)
    /\ \E p \in TraceIdx : trace[p] = Ev("setup_err", 2, 0)
    /\ \E p \in TraceIdx : trace[p].op = "mkdir" /\ trace[p].k = 1

(* ---- C4 ----------------------------------------------------------------------- *)
\* C4: an integrate error that is StepLimitReached yields exactly one warning
\* record, no error record and no direct message; any other integrate error
\* yields exactly one error record and one direct message and no warning; no
\* integrate error yields both or neither.
C4_ClosedClassification ==
    \A i \in Launched :
        LET name  == sims[i].name
            warns == CountLog(name, "warn")
            errs  == CountLog(name, "error")
            lines == CountStderr(name)
        IN  IF Integrated(i) /\ ~IntegrateResult(i).ok
            THEN IF IntegrateResult(i).why.variant = "StepLimitReached"
                 THEN warns = 1 /\ errs = 0 /\ lines = 0
                 ELSE warns = 0 /\ errs = 1 /\ lines = 1
            ELSE warns = 0 /\ errs = 0 /\ lines = 0

\* one launch ended on the step limit and another one on a fatal error
C4_Witness ==
    \E i, j \in Launched :
        /\ Integrated(i) /\ ~IntegrateResult(i).ok
        /\ IntegrateResult(i).why.variant = "StepLimitReached"
        /\ Integrated(j) /\ ~IntegrateResult(j).ok
        /\ IntegrateResult(j).why.variant = "Other"

(* ---- C5 ----------------------------------------------------------------------- *)
\* C5: a launch with resume false calls initialise exactly once, with the
\* (x, x_final, y) launch was given, and before integrate; a launch with resume
\* true never calls initialise and goes straight to integrate.
C5_InitialiseIffFresh ==
    \A i \in Launched :
        LET cs     == calls[i]
            inits  == {c \in 1..Len(cs) : cs[c].op = "initialise"}
            integs == {c \in 1..Len(cs) : cs[c].op = "integrate"}
        IN  IF sims[i].resume
            THEN inits = {} /\ integs = {1}
            ELSE /\ inits = {1}
                 /\ cs[1].args = given[i]
                 /\ integs = IF cs[1].result.ok THEN {2} ELSE {}

\* a fresh Simulation and a resumed one have both been launched
C5_Witness ==
    \E i, j \in Launched :
        /\ ~sims[i].resume /\ Entered(i) /\ given[i][1] = 1
        /\ sims[j].resume /\ Entered(j)

(* ---- C6 ----------------------------------------------------------------------- *)
\* records of one Simulation are contiguous in the log
NotInterleaved ==
    \A a \in 1..Len(log) : \A c \in (a + 2)..Len(log) :
        RecName(log[a]) = RecName(log[c])
            => \A b \in (a + 1)..(c - 1) : RecName(log[b]) = RecName(log[a])

\* C6 as stated: every launch that has ended left one start record followed by
\* exactly one terminal record, and records of two Simulations do not interleave.
C6_Original ==
    /\ \A i \in Launched :
          outcome[i] # "running"
              => \E t \in TerminalKinds : KindsOf(sims[i].name) = <<"start", t>>
    /\ NotInterleaved

\* C6 amended: a launch that reaches integrate (resume is true, or initialise
\* succeeded) logs one start record before integrate is invoked and exactly one
\* terminal record when integrate has returned; a launch whose initialise fails
\* ends with no record at all; records of two Simulations do not interleave.
C6_StartThenOneTerminal ==
    /\ \A i \in Launched :
          LET kinds == KindsOf(sims[i].name)
          IN  IF Entered(i)
              THEN /\ IF Integrated(i)
                      THEN /\ outcome[i] = "ok"
                           /\ \E t \in TerminalKinds : kinds = <<"start", t>>
                      ELSE outcome[i] = "running" /\ kinds = <<"start">>
                   /\ \E p \in At({"log_start"}), q \in At({"integrate"}) :
                         p < q /\ trace[p].k = i /\ trace[q].k = i
              ELSE outcome[i] = "err" /\ kinds = <<>>
    /\ NotInterleaved

\* two launches have ended, each with its start and its terminal record
C6_Witness ==
    /\ Len(log) = 4
    /\ \A i \in 1..2 : i \in Launched /\ Integrated(i)

(* ---- C7 ----------------------------------------------------------------------- *)
\* numbers of the run directories this process created
CreatedDirs == {trace[p].d : p \in At({"mkdir"})}

\* C7: with a versioner that returns highest existing index + 1, the run
\* directory numbers grow strictly in construction order, also above the
\* numbers the base held before, and no two Simulations share a run directory
\* or a result sink.
C7_FreshIncreasingDirs ==
    /\ \A i, j \in DOMAIN sims :
          i < j => /\ Dir(sims[i]) < Dir(sims[j])
                   /\ sims[i].system.output # sims[j].system.output
    /\ \A p, q \in At({"mkdir"}) : p < q => trace[p].d < trace[q].d
    /\ \A i \in DOMAIN sims : Dir(sims[i]) \in CreatedDirs
    /\ \A d \in CreatedDirs : \A n \in DOMAIN runs \ CreatedDirs : n < d

\* two Simulations constructed in a base that already held run directory 2
C7_Witness ==
    /\ Len(sims) = 2
    /\ Dir(sims[1]) = 3
    /\ Dir(sims[2]) = 4

(* ---- C8 ----------------------------------------------------------------------- *)
\* C8 as stated: the setup of a source begins only after the launch of the
\* Simulation constructed before it has ended.
C8_Original ==
    \A p \in At({"setup_ok"}), q \in At({"deserialize"}) :
        p < q => \E m \in (p + 1)..(q - 1) : trace[m].op \in {"launch_ok", "launch_err"}

\* C8 amended: every setup of the batch has ended before the first launch
\* begins (new returns the whole Vec), and the launches then run one at a time
\* in construction order, each ended before the next begins.
C8_AllSetupsBeforeFirstLaunch ==
    /\ \A p \in At({"launch"}), q \in At(SetupOps \cup {"filter_out"}) : q < p
    /\ \A p, q \in At({"launch"}) :
          p < q => /\ trace[p].k < trace[q].k
                   /\ \E m \in (p + 1)..(q - 1) :
                         /\ trace[m].op \in {"launch_ok", "launch_err"}
                         /\ trace[m].k = trace[p].k

\* a batch of two Simulations, both launched
C8_Witness ==
    /\ batch_mode
    /\ Len(sims) = 2
    /\ Cardinality(At({"launch"})) = 2

(* ---- C9 ----------------------------------------------------------------------- *)
\* the .conf entries of the listing, in listing order
ConfListing == SelectSeq(listing, LAMBDA e : e.ext = "conf")

\* the error setup returns for an entry that fails before touching the file system
SourceError(e) ==
    IF ~e.parses THEN "deserialize"
    ELSE IF ~(e.config.initial_time < e.config.final_time) THEN "validation"
    ELSE IF e.stem = NoName THEN "name"
    ELSE "none"

\* C9: in batch mode new returns either one Simulation per .conf source, in
\* listing order, or an error and no Simulation; the error is the one of the
\* first source whose setup failed, and setup is invoked for no source after it.
C9_AllOrNothing ==
    (batch_mode /\ ret.state # "pending")
        => IF ret.state = "ok"
           THEN /\ Len(sims) = Len(ConfListing)
                /\ \A i \in DOMAIN sims : sims[i].name = ConfListing[i].stem
                /\ \A p \in TraceIdx : trace[p].op # "setup_err"
           ELSE /\ sims = <<>>
                /\ Returned = <<>>
                /\ ret.k = Len(listing)
                /\ \A p \in TraceIdx : trace[p].op \in SetupOps => trace[p].k <= ret.k
                /\ \A p \in TraceIdx :
                      trace[p].op = "setup_err" => trace[p].k = ret.k /\ p = Len(trace)
                /\ ret.k > 0
                      => /\ trace[Len(trace)] = Ev("setup_err", ret.k, 0)
                         /\ SourceError(listing[ret.k]) \in {"none", ret.kind}
                         /\ SourceError(listing[ret.k]) = "none"
                               => ret.kind \in {"mkdir", "write_conf", "open_sink"}

\* the setup of the second source fails after the first one succeeded
C9_Witness ==
    /\ batch_mode
    /\ ret.state = "err"
    /\ ret.k = 2
    /\ \E p \in TraceIdx : trace[p] = Ev("setup_ok", 1, 0)

(* ---- C10 ---------------------------------------------------------------------- *)
\* C10 as stated: the text emitted as the direct user-visible message is
\* identical to the message of the error-level log record.
C10_Original ==
    \A j \in 1..Len(log) :
        log[j].level = "error" => \E l \in 1..Len(stderr) : stderr[l] = log[j].msg

\* C10 amended: for a non-step-limit integrate error with causes c1 .. cn the
\* fatal message is the prefix naming the Simulation followed by ": c1" ..
\* ": cn", every cause once and in order from proximate to root; that message
\* is the error-level log record, and the direct user-visible line is the same
\* message preceded by "Error: ".
C10_ChainFlattened ==
    \A i \in Launched :
        (Integrated(i) /\ ~IntegrateResult(i).ok
         /\ IntegrateResult(i).why.variant # "StepLimitReached")
            => LET chain == IntegrateResult(i).why.chain
                   n     == Len(chain)
               IN  \E j \in 1..Len(log) :
                      LET m == log[j].msg
                      IN  /\ log[j].level = "error"
                          /\ Len(m) = 3 + 2 * n
                          /\ SubSeq(m, 1, 3) = AbortPrefix(sims[i].name)
                          /\ \A c \in 1..n :
                                /\ m[2 + 2 * c] = ": "
                                /\ m[3 + 2 * c] = chain[c]
                                /\ Cardinality({q \in 1..Len(m) : m[q] = chain[c]}) = 1
                          /\ \E l \in 1..Len(stderr) : stderr[l] = <<"Error: ">> \o m

\* a fatal integrate error with a chain of two causes has been logged
C10_Witness ==
    \E i \in Launched :
        /\ Integrated(i) /\ ~IntegrateResult(i).ok
        /\ IntegrateResult(i).why.variant = "Other"
        /\ Len(IntegrateResult(i).why.chain) = 2

C12_OnlyConfReachesSetup ==
    /\ batch_mode
          => /\ \A k \in 1..Len(listing) :
                   IF listing[k].ext = "conf"
                   THEN \E p \in At({"deserialize"}) : trace[p].k = k
                   ELSE /\ \A p \in At(SetupOps) : trace[p].k # k
                        /\ \E p \in At({"filter_out"}) : trace[p].k = k
                        /\ ret.k # k
             /\ ret.state # "err"
                   => /\ Len(sims) = Len(ConfListing)
                      /\ \A i \in DOMAIN sims : sims[i].name = ConfListing[i].stem
    /\ (~batch_mode /\ pc \in {"returned", "exit"} /\ ret.kind \notin NewFaults \ {"none"})
          => /\ Len(listing) = 1
             /\ \E p \in At({"deserialize"}) : trace[p].k = 1
             /\ At({"filter_out"}) = {}

\* a batch whose listing holds a non-.conf entry between two .conf entries
C12_Witness ==
    /\ batch_mode
    /\ ret.state = "ok"
    /\ Len(listing) = 3
    /\ listing[2].ext # "conf"
    /\ Len(sims) = 2

(* ---- C13 ---------------------------------------------------------------------- *)
\* the source of the i-th Simulation: the i-th setup that succeeded
SourceOf(i) ==
    CHOOSE k \in 1..Len(listing) :
        /\ \E p \in At({"setup_ok"}) : trace[p].k = k
        /\ Cardinality({p \in At({"setup_ok"}) : trace[p].k <= k}) = i

\* C13: every successful setup has created exactly one run directory, which
\* holds <name>.conf and <name>.jsonl for the stem <name> of the source, the
\* .conf written before the .jsonl was opened; the Simulation carries that
\* name and the resume, initial_time, final_time and integrator of the record.
C13_RunDirHoldsNamedFiles ==
    /\ \A p \in At({"setup_ok"}) :
          LET k  == trace[p].k
              mk == {q \in At({"mkdir"}) : trace[q].k = k}
          IN  /\ Cardinality(mk) = 1
              /\ \A q \in mk :
                    /\ runs[trace[q].d].files
                          = << StemParts(listing[k].stem) \o <<"conf">>,
                               StemParts(listing[k].stem) \o <<"jsonl">> >>
                    /\ \E w \in At({"write_conf"}), o \in At({"open_sink"}) :
                          /\ trace[w].k = k /\ trace[o].k = k
                          /\ q < w /\ w < o
    /\ \A i \in DOMAIN sims :
          LET e == listing[SourceOf(i)]
          IN  /\ sims[i].name = e.stem
              /\ sims[i].resume = e.config.resume
              /\ sims[i].initial_time = e.config.initial_time
              /\ sims[i].final_time = e.config.final_time
              /\ sims[i].integrator = e.config.integrator

(* ---- C14 ---------------------------------------------------------------------- *)
\* C14: when resume is false and initialise fails, launch returns that error,
\* integrate is never invoked, and no start, success, warning or fatal record
\* is emitted for that Simulation; initialise cannot fail a resumed launch.
C14_InitFailureReturned ==
    \A i \in Launched :
        /\ InitFailed(i)
              => /\ ~sims[i].resume
                 /\ outcome[i] = "err"
                 /\ calls[i] = <<InitCall(given[i][1], given[i][2], given[i][3], FALSE)>>
                 /\ KindsOf(sims[i].name) = <<>>
                 /\ CountStderr(sims[i].name) = 0
                 /\ \E p \in At({"launch_err"}) : trace[p].k = i
                 /\ \A p \in At({"log_start", "integrate"}) : trace[p].k # i
        /\ sims[i].resume => ~InitFailed(i)

\* one launch ended on a failing initialise, another one ran its integration
C14_Witness ==
    \E i, j \in Launched :
        /\ InitFailed(i)
        /\ j # i
        /\ Integrated(j)

(* ---- C15 ---------------------------------------------------------------------- *)
\* what one setup may do to the output base and to the Simulations
C15_Step ==
    listing' # listing
        => /\ \A d \in DOMAIN runs : d \in DOMAIN runs' /\ runs'[d] = runs[d]
           /\ (ret'.state = "err" /\ ret'.kind \in {"deserialize", "validation", "name"})
                 => runs' = runs /\ sims' = sims
           /\ (ret'.state = "err" /\ ret'.kind \in {"write_conf", "open_sink"})
                 => /\ sims' = sims
                    /\ \E d \in DOMAIN runs' :
                          /\ DOMAIN runs' = DOMAIN runs \cup {d}
                          /\ \A n \in DOMAIN runs : n < d
                          /\ \A i \in DOMAIN sims' : Dir(sims'[i]) # d
           /\ ret'.state = "ok"
                 => /\ Len(sims') = Len(sims) + 1
                    /\ Dir(sims'[Len(sims')]) \notin DOMAIN runs
                    /\ \A n \in DOMAIN runs : n < Dir(sims'[Len(sims')])
           /\ Cardinality(CreatedDirs') >= Len(sims')

\* C15: setup has no rollback. A setup that fails at deserialization, at the
\* time check or at the name leaves the output base as it was; a setup that
\* fails at writing the .conf copy or at opening the .jsonl sink leaves its
\* numbered directory in place, owned by no Simulation; so the run directories
\* created are never fewer than the Simulations constructed, and a later setup
\* gets a number above every directory there is, the abandoned one included.
C15_NoRollback == [][C15_Step]_vars

\* a setup that succeeded after an earlier one abandoned its run directory
C15_Witness ==
    /\ Len(sims) = 1
    /\ Cardinality(CreatedDirs) = 2
    /\ \E p \in At({"setup_err"}), q \in At({"setup_ok"}) : p < q

====
